---- MODULE Spec2Model ----
(***************************************************************************)
(* A model of the Conveyor class (src/conveyor.ts): an asynchronous        *)
(* multiplexer over a growing set of producer streams ("belts").           *)
(*                                                                         *)
(* JavaScript runs every synchronous stretch of code to completion, so     *)
(* each action below is one such stretch: from one suspension point        *)
(* (`await` / `yield`) of a coroutine to its next one.  The suspension     *)
(* points are `await iterator.next()` in callInletNext / callOutletNext    *)
(* and `await this.signal`, `await this.handler(..)` and `yield` in        *)
(* iterate.                                                                *)
(***************************************************************************)
EXTENDS Integers, Sequences, FiniteSets, TLC

\* Number of belts the caller may register with addInletBelt / addOutletBelt.
NumBelts == 2
\* Largest number of items the caller's belts produce altogether.
MaxItems == 3
\* Largest number of times the consumer iterates over the engine.
MaxIterations == 2
\* Largest number of items the belts have produced by the time the consumer
\* iterates again.
MaxItemsBefore == 1

INLET == "inlet"
OUTLET == "outlet"

\* Belts supplied by the caller, and the streams a handler may return: one
\* per handler call, that is one per item and one more for every event a
\* later iteration finds in the queue.
Belts == 1 .. NumBelts
Streams == (NumBelts + 1) .. (NumBelts + MaxItems + MaxItemsBefore * (MaxIterations - 1))
Iterators == Belts \cup Streams

\* The context the caller passes to addInletBelt with belt p: the powers of
\* the tests, 2 with one belt and 3 with the next.
Power(p) == 2 + ((p - 1) % 2)

\* The handlers of the tests: a scalar result, a stream result, a failure.
Handlers == {"pow", "ipow", "throws"}

VARIABLES
    handler,        \* this.handler: which handler the engine was built with
    iteratorCount,  \* this.iteratorCount
    events,         \* this.events
    signal,         \* this.signal: TRUE when the current deferred is resolved
    throws,         \* this.throws
    belts,          \* the iterators known to the engine and their pull state
    pc,             \* where the iterate() coroutine is suspended
    i,              \* the index i of the for loop in iterate()
    out,            \* values the consumer has received, in order
    raised,         \* errors the consumer has received, in order
    calls,          \* the handler's invocations so far, in order
    iteration       \* how many coroutines iterate() has created so far

vars == <<handler, iteratorCount, events, signal, throws, belts, pc, i, out, raised, calls, iteration>>

\* gen123 / gen456 of the tests: belt p yields MaxItems*(p-1)+1, MaxItems*(p-1)+2, ...
Item(p, n) == MaxItems * (p - 1) + n

RECURSIVE pow(_, _)
pow(value, power) == IF power = 0 THEN 1 ELSE value * pow(value, power - 1)

\* What the model keeps of an iterator: type and context as registered; the
\* outcome of its last pull (status: "pulling" while none has settled since
\* the last call of next(), "queued" after a value, "done", "failed");
\* pulls, the calls of next() not yet settled; pulled, the items produced;
\* for a returned stream its one value and the item it was returned for;
\* added, whether it was registered during the round being drained.
NoBelt ==
    [type |-> "none", context |-> 0, status |-> "unregistered", pulled |-> 0,
     value |-> 0, of |-> <<0, 0>>, added |-> "idle", pulls |-> 0]

BeltError(p) == [source |-> "belt", iterator |-> p, n |-> 0]
HandlerError(p, n) == [source |-> "handler", iterator |-> p, n |-> n]

Init ==
    /\ handler \in Handlers
    /\ iteratorCount = 0
    /\ events = <<>>
    /\ signal = FALSE
    /\ throws = <<>>
    /\ belts = [p \in Iterators |-> NoBelt]
    /\ pc = "new"
    /\ i = 0
    /\ out = <<>>
    /\ raised = <<>>
    /\ calls = <<>>
    /\ iteration = 1

\* A pull that calls next() twice.
CallNextTwice(bs, p) ==
    [bs EXCEPT ![p].pulls = @ + 2,
               ![p].status = IF @ \in {"done", "failed"} THEN @ ELSE "pulling"]

\* iterator.next() has been called and is awaited: one more pull of p is
\* outstanding.  (An iterator that has ended or failed stays so.)
CallNext(bs, p) ==
    [bs EXCEPT ![p].pulls = @ + 1,
               ![p].status = IF @ \in {"done", "failed"} THEN @ ELSE "pulling"]

\* A round is being drained: the for loop of iterate() is suspended at the
\* handler call or at a yield.
Draining == pc \in {"handler", "yield"}

\* Belt p is noted as registered during the round that is being drained
\* ("round"), or not ("idle": outside a round, or in an earlier one).
Added(bs, p) == [bs EXCEPT ![p].added = IF Draining THEN "round" ELSE "idle"]

\* A new round starts: no belt has been registered during it yet.
RoundStart(bs) == [p \in Iterators |-> [bs[p] EXCEPT !.added = "idle"]]

\* The caller hands its belts over one after the other.
NextBelt(p) ==
    /\ p \in Belts
    /\ belts[p].status = "unregistered"
    /\ \A q \in Belts : q < p => belts[q].status # "unregistered"

AddInletBelt(p, context) ==
    /\ NextBelt(p)
    /\ iteratorCount' = iteratorCount + 1
    /\ belts' = CallNext(Added([belts EXCEPT ![p].type = INLET, ![p].context = context], p), p)
    /\ UNCHANGED <<handler, iteration, events, signal, throws, pc, i, out, raised, calls>>

AddOutletBelt(p) ==
    /\ NextBelt(p)
    /\ iteratorCount' = iteratorCount + 1
    /\ belts' = CallNext(Added([belts EXCEPT ![p].type = OUTLET], p), p)
    /\ UNCHANGED <<handler, iteration, events, signal, throws, pc, i, out, raised, calls>>

\* Items the caller's belts have produced so far.
RECURSIVE Sum(_, _)
Sum(f, S) == IF S = {} THEN 0 ELSE LET x == CHOOSE y \in S : TRUE IN f[x] + Sum(f, S \ {x})
Produced == Sum([p \in Belts |-> belts[p].pulled], Belts)

\* What an outstanding pull of p may settle with.  A belt of the caller is
\* opaque: it may produce a further item (MaxItems altogether), end, or fail.
\* A stream returned by ipow yields its one value and ends.  An iterator
\* that has ended or failed answers every further pull with done.
Results(p) ==
    IF belts[p].status \in {"done", "failed"}
    THEN {"done"}
    ELSE IF p \in Belts
    THEN (IF Produced < MaxItems THEN {"value"} ELSE {}) \cup {"done", "error"}
    ELSE (IF belts[p].pulled = 0 THEN {"value"} ELSE {"done"})

Value(p) == IF p \in Belts THEN Item(p, belts[p].pulled + 1) ELSE belts[p].value

InletEvent(p) ==
    [type |-> INLET, value |-> Value(p), context |-> belts[p].context,
     iterator |-> p, n |-> belts[p].pulled + 1]

\* An outlet continuation that tags its event like the inlet one does.
OutletEventAsInlet(p) ==
    [type |-> INLET, value |-> Value(p), context |-> 0,
     iterator |-> p, n |-> belts[p].pulled + 1]

OutletEvent(p) ==
    [type |-> OUTLET, value |-> Value(p), context |-> 0,
     iterator |-> p, n |-> belts[p].pulled + 1]

\* A push at the wrong end of the queue.
Unshift(queue, event) == <<event>> \o queue

\* `this.events.push(event)`.
Push(queue, event) == Append(queue, event)

\* A continuation that forgets to resolve the signal when the belt has ended.
ResolveUnlessDone(resolved, r) == resolved \/ r # "done"

\* A continuation that resolves the signal only when it has queued an event.
ResolveOnValueOnly(resolved, r) == resolved \/ r = "value"

\* `this.signal.resolve()`: the current deferred is resolved from now on.
Resolve(resolved, r) == TRUE

\* A continuation whose catch branch records the error but leaves the
\* counter as it is.
SettleErrorUncounted(p, r, event) ==
    /\ IF r = "value"
       THEN /\ events' = Push(events, event)
            /\ belts' = [belts EXCEPT ![p].status = "queued",
                                      ![p].pulled = belts[p].pulled + 1,
                                      ![p].pulls = @ - 1]
            /\ UNCHANGED <<iteratorCount, throws>>
       ELSE IF r = "done"
       THEN /\ iteratorCount' = iteratorCount - 1
            /\ belts' = [belts EXCEPT ![p].status = IF @ = "failed" THEN @ ELSE "done",
                                      ![p].pulls = @ - 1]
            /\ UNCHANGED <<events, throws>>
       ELSE /\ iteratorCount' = iteratorCount
            /\ throws' = Append(throws, BeltError(p))
            /\ belts' = [belts EXCEPT ![p].status = "failed", ![p].pulls = @ - 1]
            /\ UNCHANGED events
    /\ signal' = Resolve(signal, r)

\* The continuation of callInletNext / callOutletNext after the awaited pull
\* settled with r; event is the event built for a value.
Settle(p, r, event) ==
    /\ IF r = "value"
       THEN /\ events' = Push(events, event)
            /\ belts' = [belts EXCEPT ![p].status = "queued",
                                      ![p].pulled = belts[p].pulled + 1,
                                      ![p].pulls = @ - 1]
            /\ UNCHANGED <<iteratorCount, throws>>
       ELSE IF r = "done"
       THEN /\ iteratorCount' = iteratorCount - 1
            /\ belts' = [belts EXCEPT ![p].status = IF @ = "failed" THEN @ ELSE "done",
                                      ![p].pulls = @ - 1]
            /\ UNCHANGED <<events, throws>>
       ELSE /\ iteratorCount' = iteratorCount - 1
            /\ throws' = Append(throws, BeltError(p))
            /\ belts' = [belts EXCEPT ![p].status = "failed", ![p].pulls = @ - 1]
            /\ UNCHANGED events
    /\ signal' = Resolve(signal, r)

CallInletNext(p) ==
    /\ belts[p].type = INLET
    /\ belts[p].pulls > 0
    /\ \E r \in Results(p) : Settle(p, r, InletEvent(p))
    /\ UNCHANGED <<handler, iteration, pc, i, out, raised, calls>>

CallOutletNext(p) ==
    /\ belts[p].type = OUTLET
    /\ belts[p].pulls > 0
    /\ \E r \in Results(p) : Settle(p, r, OutletEvent(p))
    /\ UNCHANGED <<handler, iteration, pc, i, out, raised, calls>>

\* `yield value` hands the consumer a value; the tags say which item of which
\* belt it was made from.
Yield(o, event, value) ==
    Append(o, [value |-> value, iterator |-> event.iterator, n |-> event.n])

\* A loop condition that gives up while one belt is still live.
WhileOffByOne(count) == IF count <= 1 THEN "done" ELSE "signal"

\* `while (this.iteratorCount)`: the coroutine returns, or awaits the signal.
While(count) == IF count = 0 THEN "done" ELSE "signal"

\* A round end that resets the accumulator without throwing.
RoundEndSwallow(count) ==
    /\ events' = <<>>
    /\ signal' = FALSE
    /\ throws' = <<>>
    /\ pc' = While(count)
    /\ UNCHANGED raised

\* The end of a round, after the for loop: the accumulated errors are thrown
\* (the first `throw` ends the coroutine), or the queue is emptied and the
\* signal replaced.
RoundEnd(count) ==
    IF Len(throws) > 0
    THEN /\ pc' = "thrown"
         /\ raised' = Append(raised, throws[1])
         /\ UNCHANGED <<events, signal, throws>>
    ELSE /\ events' = <<>>
         /\ signal' = FALSE
         /\ pc' = While(count)
         /\ UNCHANGED <<throws, raised>>

\* A for loop that stops at the first captured error, before the queue is
\* drained.
ForLoopAbortEarly(idx, count) ==
    /\ i' = idx
    /\ IF idx < Len(events) /\ Len(throws) = 0
       THEN LET event == events[idx + 1] IN
            /\ IF event.type = INLET
               THEN /\ pc' = "handler"
                    /\ calls' = Append(calls, event)
                    /\ out' = out
               ELSE /\ pc' = "yield"
                    /\ out' = Yield(out, event, event.value)
                    /\ calls' = calls
            /\ UNCHANGED <<events, signal, throws, raised>>
       ELSE /\ RoundEnd(count)
            /\ UNCHANGED <<out, calls>>

\* A for loop that takes the events from the tail of the queue.
ForLoopBackwards(idx, count) ==
    /\ i' = idx
    /\ IF idx < Len(events)
       THEN LET event == events[Len(events) - idx] IN
            /\ IF event.type = INLET
               THEN /\ pc' = "handler"
                    /\ calls' = Append(calls, event)
                    /\ out' = out
               ELSE /\ pc' = "yield"
                    /\ out' = Yield(out, event, event.value)
                    /\ calls' = calls
            /\ UNCHANGED <<events, signal, throws, raised>>
       ELSE /\ RoundEnd(count)
            /\ UNCHANGED <<out, calls>>

\* The for loop from index idx up to the coroutine's next suspension point:
\* the handler is called for an inlet event, an outlet event's value yielded.
ForLoop(idx, count) ==
    /\ i' = idx
    /\ IF idx < Len(events)
       THEN LET event == events[idx + 1] IN
            /\ IF event.type = INLET
               THEN /\ pc' = "handler"
                    /\ calls' = Append(calls, event)
                    /\ out' = out
               ELSE /\ pc' = "yield"
                    /\ out' = Yield(out, event, event.value)
                    /\ calls' = calls
            /\ UNCHANGED <<events, signal, throws, raised>>
       ELSE /\ RoundEnd(count)
            /\ UNCHANGED <<out, calls>>

\* A body that awaits the signal before it looks at the counter.
StartAwaitingFirst ==
    /\ pc = "new"
    /\ pc' = "signal"
    /\ UNCHANGED <<handler, iteration, iteratorCount, events, signal, throws, belts, i, out, raised, calls>>

\* The consumer asks for the first item: the body of iterate() starts.
Start ==
    /\ pc = "new"
    /\ pc' = While(iteratorCount)
    /\ UNCHANGED <<handler, iteration, iteratorCount, events, signal, throws, belts, i, out, raised, calls>>

\* `await this.signal` resumes once the deferred is resolved.
AwaitSignal ==
    /\ pc = "signal"
    /\ signal
    /\ belts' = RoundStart(belts)
    /\ ForLoop(0, iteratorCount)
    /\ UNCHANGED <<handler, iteration, iteratorCount>>

\* A pull that takes its belt from the head of the queue, not from the event
\* just processed.
RepullFirst(bs, event) ==
    IF events[1].type = INLET
    THEN [CallNext(bs, events[1].iterator) EXCEPT ![events[1].iterator].context = events[1].context]
    ELSE CallNext(bs, events[1].iterator)

\* A pull of the event's belt that leaves the context argument out.
RepullWithoutContext(bs, event) ==
    [CallNext(bs, event.iterator) EXCEPT ![event.iterator].context = 0]

\* `this.callInletNext(event.iterator, event.context)` or
\* `this.callOutletNext(event.iterator)`: the event's belt is pulled again,
\* an inlet belt with the context its event carried.
Repull(bs, event) ==
    IF event.type = INLET
    THEN [CallNext(bs, event.iterator) EXCEPT ![event.iterator].context = event.context]
    ELSE CallNext(bs, event.iterator)

\* The stream ipow returns: a fresh iterator.
NewStream == CHOOSE s \in Streams :
    /\ belts[s].status = "unregistered"
    /\ \A t \in Streams : t < s => belts[t].status # "unregistered"

\* A handler failure that is caught and ignored: the loop goes on.
HandlerThrewIgnored(event) ==
    /\ belts' = CallNext(belts, event.iterator)
    /\ ForLoop(i + 1, iteratorCount)
    /\ UNCHANGED iteratorCount

\* The handler threw (or its promise rejected): nothing catches it inside
\* iterate(), so the coroutine ends with the handler's error.
HandlerThrew(event) ==
    /\ pc' = "thrown"
    /\ raised' = Append(raised, HandlerError(event.iterator, event.n))
    /\ UNCHANGED <<iteratorCount, events, signal, throws, belts, i, out, calls>>

\* The handler returned a plain value: `yield result`.
HandlerReturnedValue(event, result) ==
    /\ pc' = "yield"
    /\ out' = Yield(out, event, result)
    /\ UNCHANGED <<iteratorCount, events, signal, throws, belts, i, raised, calls>>

\* A returned stream that is pulled without being counted as a live belt.
HandlerReturnedStreamUncounted(event, result) ==
    LET s == NewStream IN
    /\ iteratorCount' = iteratorCount
    /\ belts' = Repull(CallNext(Added(
           [belts EXCEPT ![s].type = OUTLET, ![s].value = result,
                         ![s].of = <<event.iterator, event.n>>],
           s), s), event)
    /\ ForLoop(i + 1, iteratorCount)

\* The handler returned a stream: addOutletBelt(result), then the event's
\* belt is pulled again and the for loop goes on.
HandlerReturnedStream(event, result) ==
    LET s == NewStream IN
    /\ iteratorCount' = iteratorCount + 1
    /\ belts' = Repull(CallNext(Added(
           [belts EXCEPT ![s].type = OUTLET, ![s].value = result,
                         ![s].of = <<event.iterator, event.n>>],
           s), s), event)
    /\ ForLoop(i + 1, iteratorCount + 1)

\* `await this.handler(event.value, event.context)` settles.
AwaitHandler ==
    /\ pc = "handler"
    /\ LET event == events[i + 1]
           result == pow(event.value, event.context)
       IN  CASE handler = "throws" -> HandlerThrew(event)
             [] handler = "pow" -> HandlerReturnedValue(event, result)
             [] handler = "ipow" -> HandlerReturnedStream(event, result)
    /\ UNCHANGED <<handler, iteration>>

\* The consumer asks for the next item: the coroutine resumes after `yield`,
\* pulls the event's belt again and goes on with the for loop.
Resume ==
    /\ pc = "yield"
    /\ belts' = Repull(belts, events[i + 1])
    /\ ForLoop(i + 1, iteratorCount)
    /\ UNCHANGED <<handler, iteration, iteratorCount>>

Next ==
    \/ \E p \in Belts : AddInletBelt(p, Power(p))
    \/ \E p \in Belts : AddOutletBelt(p)
    \/ \E p \in Iterators : CallInletNext(p)
    \/ \E p \in Iterators : CallOutletNext(p)
    \/ Start
    \/ AwaitSignal
    \/ AwaitHandler
    \/ Resume

Spec == Init /\ [][Next]_vars

\* `[Symbol.asyncIterator]()` once more, after the sequence has ended: the
\* consumer iterates over the same engine again.  iterate() creates a new
\* coroutine, suspended at its start; the fields of the engine stay as the
\* last coroutine left them.
AsyncIterator ==
    /\ pc \in {"done", "thrown"}
    /\ iteration < MaxIterations
    /\ Produced <= MaxItemsBefore
    /\ iteration' = iteration + 1
    /\ pc' = "new"
    /\ i' = 0
    /\ UNCHANGED <<handler, iteratorCount, events, signal, throws, belts, out, raised, calls>>

NextAgain ==
    \/ Next
    \/ AsyncIterator

SpecAgain == Init /\ [][NextAgain]_vars

\* Every outstanding pull settles, every handler call settles, and the
\* consumer keeps asking for the next item.
Fairness ==
    /\ \A p \in Iterators : WF_vars(CallInletNext(p))
    /\ \A p \in Iterators : WF_vars(CallOutletNext(p))
    /\ WF_vars(Start)
    /\ WF_vars(AwaitSignal)
    /\ WF_vars(AwaitHandler)
    /\ WF_vars(Resume)

FairSpec == Spec /\ Fairness

(***************************************************************************)
(* Vocabulary of the properties.                                           *)
(***************************************************************************)
Terminal == {"done", "thrown"}

Registered == {p \in Iterators : belts[p].status # "unregistered"}
Inlets == {p \in Registered : belts[p].type = INLET}
Outlets == {p \in Registered : belts[p].type = OUTLET}

\* The items belt p has produced so far, as <<belt, index>> pairs.
ItemsOf(S) == {<<p, n>> \in S \X (1 .. MaxItems) : n <= belts[p].pulled}

\* A pull of some belt has failed / the handler has failed.
BeltFailed == \E p \in Registered : belts[p].status = "failed"
HandlerFailed == \E k \in DOMAIN raised : raised[k].source = "handler"

\* How often value v was yielded, and how often it is due: once for every
\* item of an inlet belt that the handler maps to v (directly, or as the one
\* item of the stream it returns), once for every item v of an outlet belt
\* of the caller.
Yielded(v) == Cardinality({k \in DOMAIN out : out[k].value = v})
Due(v) ==
    Cardinality({x \in ItemsOf(Inlets) :
                    pow(Item(x[1], x[2]), belts[x[1]].context) = v})
    + Cardinality({x \in ItemsOf(Outlets \cap Belts) : Item(x[1], x[2]) = v})
OutValues == {out[k].value : k \in DOMAIN out}
DueValues == {pow(Item(x[1], x[2]), belts[x[1]].context) : x \in ItemsOf(Inlets)}
                \cup {Item(x[1], x[2]) : x \in ItemsOf(Outlets \cap Belts)}

\* Item n of belt p has been yielded (for an inlet: its handler result).
Delivered(p, n) == \E k \in DOMAIN out : out[k].iterator = p /\ out[k].n = n

(***************************************************************************)
(* C1  Completion.  When the output sequence ends and no pull and no       *)
(* handler call has failed, it ends cleanly and the values yielded are, as *)
(* a multiset, exactly the handler results of all inlet items plus the     *)
(* items of all outlet belts: each once, none missing, none twice.         *)
(***************************************************************************)
Complete ==
    \A v \in OutValues \cup DueValues : Yielded(v) = Due(v)

C1_Completion ==
    [][(pc \notin Terminal /\ pc' \in Terminal /\ ~BeltFailed' /\ ~HandlerFailed')
          => (pc' = "done" /\ Complete')]_vars

C1_Witness ==
    /\ pc = "done"
    /\ handler = "pow"
    /\ ~BeltFailed
    /\ Complete
    /\ \E p \in Inlets : belts[p].pulled >= 1
    /\ \E p \in Outlets : belts[p].pulled >= 1

(***************************************************************************)
(* C2  Termination.  Under FairSpec (pulls and handler calls settle, the   *)
(* consumer keeps asking) a run without failures reaches the clean end,    *)
(* and the loop never stays suspended on the signal while the result of a  *)
(* settled pull (an event, an error, the counter at zero) waits for it.    *)
(***************************************************************************)
PullSettled == Len(events) > 0 \/ Len(throws) > 0 \/ iteratorCount = 0

C2_Termination ==
    /\ <>(pc = "done" \/ BeltFailed \/ HandlerFailed)
    /\ ((pc = "signal" /\ PullSettled) ~> (pc # "signal"))

C2_Witness ==
    /\ pc = "done"
    /\ ~BeltFailed
    /\ Len(out) = MaxItems
    /\ Cardinality(Registered) >= NumBelts

(***************************************************************************)
(* C3  A handler failure does not abort the round: when it reaches the     *)
(* consumer, every other event queued in the round has been processed (the *)
(* failing event is not followed by an unprocessed one).                   *)
(***************************************************************************)
C3_HandlerFailureDrainsRound ==
    [][(pc # "thrown" /\ pc' = "thrown" /\ HandlerFailed')
          => i' + 1 >= Len(events')]_vars

(***************************************************************************)
(* C4  When the accumulated errors are surfaced at the end of a round,     *)
(* every one of them reaches the consumer, not only the first.             *)
(***************************************************************************)
C4_AllErrorsSurfaced ==
    [][(pc # "thrown" /\ pc' = "thrown" /\ ~HandlerFailed')
          => \A k \in DOMAIN throws' :
                \E j \in DOMAIN raised' : raised'[j] = throws'[k]]_vars

(***************************************************************************)
(* C7  A captured pull failure is never lost: the iteration never ends     *)
(* cleanly once the pull of a registered belt has failed.                  *)
(***************************************************************************)
C7_FailureNeverLost ==
    [][(pc # "done" /\ pc' = "done") => ~BeltFailed']_vars

\* The stream the handler returned for item n of inlet belt p, if any.
StreamsOf(p, n) == {s \in Streams \cap Registered : belts[s].of = <<p, n>>}

\* The consumer has received what item n of belt p stands for: the item
\* itself (outlet), the handler's value for it, or the item of the stream
\* the handler returned for it.
Received(p, n) ==
    IF belts[p].type = INLET /\ handler = "ipow"
    THEN \E s \in StreamsOf(p, n) : Delivered(s, 1)
    ELSE Delivered(p, n)

\* The merge loop is through with item n of belt p: its value was yielded,
\* or the stream returned for it was registered.
Handled(p, n) ==
    IF belts[p].type = INLET /\ handler = "ipow"
    THEN StreamsOf(p, n) # {}
    ELSE Delivered(p, n)

\* The error of a failed pull has been surfaced to the consumer.
Surfaced == pc = "thrown" /\ ~HandlerFailed

(***************************************************************************)
(* C5 as claimed.  A belt yields an item and then fails, and its failure   *)
(* is surfaced; with the handler that returns values, the consumer has     *)
(* received every item that a belt registered before the failing one       *)
(* produces: none of them is dropped.                                      *)
(***************************************************************************)
C5_NoItemDropped ==
    (Surfaced /\ handler = "pow" /\ belts[raised[1].iterator].pulled >= 1)
        => \A q \in Belts : \A n \in 1 .. belts[q].pulled :
              (q < raised[1].iterator /\ belts[q].status # "failed")
                  => Delivered(q, n)

(***************************************************************************)
(* C5 amended.  At the moment a pull failure is surfaced the round is      *)
(* drained: every item that any belt had produced by then (the failing     *)
(* belt's own items included) has been handled by the merge loop, that is, *)
(* its value has been yielded (the item itself for an outlet belt, the     *)
(* handler's value for an inlet belt) or the stream the handler returned   *)
(* for it has been registered (the stream's items need not have been       *)
(* yielded).  Items produced later are not delivered.                      *)
(***************************************************************************)
C5_RoundDrained ==
    [][(pc # "thrown" /\ Surfaced')
          => \A x \in ItemsOf(Registered)' : Handled(x[1], x[2])']_vars

C5_Witness ==
    /\ Surfaced
    /\ handler = "pow"
    /\ belts[raised[1].iterator].pulled >= 1
    /\ \E q \in Inlets : q # raised[1].iterator /\ belts[q].pulled >= 1
                            /\ Delivered(q, 1) /\ belts[q].status = "pulling"
    /\ Len(out) = MaxItems

(***************************************************************************)
(* C6 as claimed.  A belt produced item X and a later pull of it failed:   *)
(* when the sequence has ended with the failure, the consumer has received *)
(* X (what the handler made of it for an inlet, X itself for an outlet).   *)
(***************************************************************************)
C6_ItemBeforeFailure ==
    Surfaced => \A p \in Belts : \A n \in 1 .. belts[p].pulled :
                    belts[p].status = "failed" => Received(p, n)

(***************************************************************************)
(* C6 amended.  A belt produced item X and a later pull of it failed: the  *)
(* sequence never ends cleanly, and X has been yielded (the handler's      *)
(* value for an inlet, X itself for an outlet); if the handler returned a  *)
(* stream for X, the stream has been registered.                           *)
(***************************************************************************)
C6_ItemHandledBeforeFailure ==
    \A p \in Registered : \A n \in 1 .. belts[p].pulled :
        belts[p].status = "failed" => (pc # "done" /\ Handled(p, n))

C6_Witness ==
    /\ Surfaced
    /\ \E p \in Inlets : /\ belts[p].status = "failed"
                         /\ belts[p].pulled >= 1
                         /\ handler = "pow"
                         /\ Delivered(p, 1)
    /\ \E p \in Outlets : /\ belts[p].status = "failed"
                          /\ belts[p].pulled >= 1
                          /\ Delivered(p, 1)

(***************************************************************************)
(* C8  With the handler that fails, the first handler call ends the        *)
(* sequence with that call's error and nothing else; the handler is not    *)
(* called again, and no value made from an inlet item is ever yielded (so  *)
(* with inlet belts only the consumer receives no value at all).           *)
(***************************************************************************)
C8_HandlerFailure ==
    handler = "throws" =>
        /\ Len(calls) <= 1
        /\ (Len(calls) = 1 /\ pc # "handler")
              => /\ pc = "thrown"
                 /\ raised = <<HandlerError(calls[1].iterator, calls[1].n)>>
        /\ \A k \in DOMAIN out : belts[out[k].iterator].type = OUTLET
        /\ Outlets = {} => out = <<>>

C8_Witness ==
    /\ handler = "throws"
    /\ pc = "thrown"
    /\ HandlerFailed
    /\ Len(events) > i + 1
    /\ Len(out) > 0

(***************************************************************************)
(* C9  Per-belt order: of two values made from items of the same belt, the *)
(* one made from the earlier item is yielded first (and none twice).       *)
(***************************************************************************)
C9_BeltOrder ==
    \A k, l \in DOMAIN out :
        (k < l /\ out[k].iterator = out[l].iterator) => out[k].n < out[l].n

C9_Witness ==
    /\ Len(out) = 3
    /\ out[1].iterator = out[3].iterator
    /\ out[2].iterator # out[1].iterator
    /\ out[1].n = 1
    /\ out[3].n = 2

(***************************************************************************)
(* C10  With the handler that returns a stream: nothing is yielded for an  *)
(* inlet item itself, every completed handler call has registered its      *)
(* stream as an outlet belt, no stream item is yielded twice, and under    *)
(* FairSpec every registered stream's item is eventually yielded unless a  *)
(* pull fails.                                                             *)
(***************************************************************************)
StreamRegistered ==
    \A k \in DOMAIN calls :
        (k < Len(calls) \/ pc # "handler")
            => \E s \in StreamsOf(calls[k].iterator, calls[k].n) :
                  /\ belts[s].type = OUTLET
                  /\ belts[s].value = pow(calls[k].value, calls[k].context)

C10_StreamResult ==
    /\ [](handler = "ipow" =>
            /\ \A k \in DOMAIN out : belts[out[k].iterator].type = OUTLET
            /\ StreamRegistered
            /\ \A s \in Streams :
                  Cardinality({k \in DOMAIN out : out[k].iterator = s}) <= 1)
    /\ \A s \in Streams :
          (s \in Registered) ~> (Delivered(s, 1) \/ BeltFailed)

C10_Witness ==
    /\ handler = "ipow"
    /\ pc = "done"
    /\ Len(out) = 2
    /\ out[1].iterator \in Belts
    /\ out[2].iterator \in Streams
    /\ out[2].value = pow(Item(1, 1), Power(1))

\* The handler has been invoked for item n of belt p, this many times.
Invocations(p, n) ==
    Cardinality({k \in DOMAIN calls : calls[k].iterator = p /\ calls[k].n = n})

(***************************************************************************)
(* C11  The handler is invoked only for items of inlet belts, at most once *)
(* per item, and exactly once for every inlet item the loop is through     *)
(* with (every item but a still queued last one); an outlet belt's item,   *)
(* of a belt of the caller or of a stream the handler returned, is yielded *)
(* as it was produced.                                                     *)
(***************************************************************************)
C11_HandlerOncePerInletItem ==
    /\ \A k \in DOMAIN calls :
          /\ belts[calls[k].iterator].type = INLET
          /\ calls[k].n <= belts[calls[k].iterator].pulled
          /\ calls[k].value = Item(calls[k].iterator, calls[k].n)
    /\ \A p \in Inlets : \A n \in 1 .. belts[p].pulled :
          /\ Invocations(p, n) <= 1
          /\ (n < belts[p].pulled \/ belts[p].status # "queued" \/ Handled(p, n))
                => Invocations(p, n) = 1
    /\ \A k \in DOMAIN out :
          belts[out[k].iterator].type = OUTLET
              => out[k].value = IF out[k].iterator \in Belts
                                THEN Item(out[k].iterator, out[k].n)
                                ELSE belts[out[k].iterator].value

C11_Witness ==
    /\ pc = "done"
    /\ handler = "ipow"
    /\ Len(calls) = 2
    /\ calls[1].iterator = calls[2].iterator
    /\ \E k \in DOMAIN out : out[k].iterator \in Belts
    /\ \E k \in DOMAIN out : out[k].iterator \in Streams

(***************************************************************************)
(* C12  Every handler invocation receives the context its belt was         *)
(* registered with, for every item of the belt and whatever the order of   *)
(* the events of different belts in the queue.                             *)
(***************************************************************************)
C12_ContextOfRegistration ==
    \A k \in DOMAIN calls : calls[k].context = Power(calls[k].iterator)

C12_Witness ==
    /\ handler = "pow"
    /\ Len(calls) = 3
    /\ calls[1].iterator = calls[3].iterator
    /\ calls[2].iterator # calls[1].iterator
    /\ calls[1].context # calls[2].context
    /\ calls[3].n = 2

\* Item n of belt p has been yielded this many times.
Deliveries(p, n) ==
    Cardinality({k \in DOMAIN out : out[k].iterator = p /\ out[k].n = n})

(***************************************************************************)
(* C13  An item of an outlet belt is never yielded in the round during     *)
(* which its belt was registered, only in a later one: the round drains a  *)
(* snapshot of the queue taken when it began.                              *)
(***************************************************************************)
C13_YieldedInLaterRound ==
    [][Len(out') > Len(out)
          => LET p == out'[Len(out')].iterator
             IN  belts'[p].type = OUTLET => belts'[p].added # "round"]_vars

(***************************************************************************)
(* C14  When the consumer asks for the first item of an engine on which no *)
(* belt has been registered, the sequence ends at once: cleanly, with no   *)
(* value and no error, and without waiting for the signal.                 *)
(***************************************************************************)
C14_EmptyEngineEnds ==
    [][(pc = "new" /\ pc' # "new" /\ Registered = {})
          => (pc' = "done" /\ out' = <<>> /\ raised' = <<>>)]_vars

C14_Witness ==
    /\ pc = "done"
    /\ Registered = {}
    /\ iteratorCount = 0
    /\ out = <<>>
    /\ raised = <<>>

\* The registered belts that have neither ended nor failed.
Live == {p \in Registered : belts[p].status \in {"pulling", "queued"}}
Retired == {p \in Registered : belts[p].status \in {"done", "failed"}}

(***************************************************************************)
(* C15  The counter is the number of registered belts that have neither    *)
(* ended nor failed, and is never negative.  Every step changes it by the  *)
(* number of belts registered in the step minus the number of belts that   *)
(* ended or failed in it: once up per registration, once down per belt.    *)
(***************************************************************************)
C15_CounterIsLiveBelts ==
    /\ [](iteratorCount = Cardinality(Live) /\ iteratorCount >= 0)
    /\ [][iteratorCount' - iteratorCount
            = (Cardinality(Registered') - Cardinality(Registered))
              - (Cardinality(Retired') - Cardinality(Retired))]_vars

C15_Witness ==
    /\ iteratorCount = 1
    /\ \E p \in Belts : belts[p].status = "done"
    /\ \E p \in Belts : belts[p].status = "failed"
    /\ \E s \in Streams : s \in Live

\* The index in the queue of the first event the loop is not through with:
\* the event at i while the loop is suspended in its processing, the first
\* one while the loop is not in a round (the queue is emptied at round end).
FirstUnprocessed == IF pc \in {"new", "signal", "done"} THEN 1 ELSE i + 1

\* The queued events of belt p the loop is not through with.
Pending(p) ==
    {k \in DOMAIN events : k >= FirstUnprocessed /\ events[k].iterator = p}

(***************************************************************************)
(* C16  A belt never has two outstanding pulls, nor an outstanding pull    *)
(* together with a queued event the loop is not through with; a live belt  *)
(* has exactly one of the two.  A pull is issued only at registration, or  *)
(* by the loop for the belt of the event it has just processed (value      *)
(* yielded, or returned stream registered).                                *)
(***************************************************************************)
C16_OnePullOrOneEvent ==
    /\ [](\A p \in Registered :
            /\ belts[p].pulls + Cardinality(Pending(p)) <= 1
            /\ p \in Live => belts[p].pulls + Cardinality(Pending(p)) = 1)
    /\ [][\A p \in Iterators :
            belts'[p].pulls > belts[p].pulls
                => \/ belts[p].status = "unregistered"
                   \/ /\ Draining
                      /\ events[i + 1].iterator = p
                      /\ \E n \in 1 .. MaxItems :
                            n = events[i + 1].n /\ Handled(p, n)']_vars

C16_Witness ==
    /\ pc = "yield"
    /\ \E p, q \in Live :
          /\ belts[p].pulls = 1
          /\ belts[p].pulled >= 1
          /\ Pending(p) = {}
          /\ Cardinality(Pending(q)) = 1
          /\ q # events[i + 1].iterator

(***************************************************************************)
(* C17  A belt whose pull has returned done or has failed is never pulled  *)
(* again: it has no outstanding pull and no queued event the loop is not   *)
(* through with, and no later step changes its status or makes it produce  *)
(* a further item.                                                         *)
(***************************************************************************)
C17_RetiredNeverPulled ==
    /\ [](\A p \in Retired : belts[p].pulls = 0 /\ Pending(p) = {})
    /\ [][\A p \in Retired :
            /\ belts'[p].status = belts[p].status
            /\ belts'[p].pulls = 0
            /\ belts'[p].pulled = belts[p].pulled]_vars

C17_Witness ==
    /\ pc = "yield"
    /\ Len(out) = MaxItems
    /\ \E p \in Belts : belts[p].status = "done" /\ belts[p].pulled >= 1
    /\ \E p \in Belts : belts[p].status = "failed" /\ belts[p].pulled >= 1

(***************************************************************************)
(* C18  An accumulated error is raised at a round boundary only: in the    *)
(* step that raises it the for loop has reached the end of the queue, no   *)
(* belt has a queued event the loop is not through with, and every event   *)
(* of the queue has been processed (its value yielded, or the stream       *)
(* returned for it registered).                                            *)
(***************************************************************************)
C18_RaisedAtRoundBoundary ==
    [][(pc # "thrown" /\ pc' = "thrown" /\ raised'[Len(raised')].source = "belt")
          => /\ i' = Len(events')
             /\ \A p \in Iterators : Pending(p)' = {}
             /\ \A p \in Iterators : \A n \in 1 .. MaxItems :
                   (\E k \in DOMAIN events' :
                        events'[k].iterator = p /\ events'[k].n = n)
                       => Handled(p, n)']_vars

C18_Witness ==
    /\ pc = "thrown"
    /\ Len(throws) > 0
    /\ raised = <<throws[1]>>
    /\ Len(events) = 2
    /\ i = 2
    /\ events[1].type # events[2].type
    /\ \A k \in DOMAIN events : Handled(events[k].iterator, events[k].n)

\* The loop has started on an event: called the handler for it, or yielded
\* its value.
Started(event) ==
    IF event.type = INLET
    THEN Invocations(event.iterator, event.n) > 0
    ELSE Delivered(event.iterator, event.n)

\* How many handler invocations for item n of belt p have settled: none for
\* an item of an outlet belt (the handler is not called for it); for an
\* item of an inlet belt one for every value yielded for it (every stream
\* registered for it, with the handler that returns streams) and one for
\* every handler failure raised for it.  (A later iteration that finds the item's event still in the queue
\* calls the handler for it again.)
Settlements(p, n) ==
    IF belts[p].type # INLET
    THEN 0
    ELSE (IF handler = "ipow" THEN Cardinality(StreamsOf(p, n)) ELSE Deliveries(p, n))
         + Cardinality({j \in DOMAIN raised : raised[j] = HandlerError(p, n)})

\* The handler invocations that have not settled yet: the k-th invocation
\* is in flight when it is the m-th one for its item and fewer than m
\* invocations for that item have settled.
InFlight ==
    {k \in DOMAIN calls :
        Cardinality({j \in 1 .. k : /\ calls[j].iterator = calls[k].iterator
                                    /\ calls[j].n = calls[k].n})
            > Settlements(calls[k].iterator, calls[k].n)}

(***************************************************************************)
(* C19  The loop takes the events of a round one at a time in queue order: *)
(* when it has started on an event (handler called, or outlet value        *)
(* yielded), it is through with every event queued before it; an event     *)
(* behind the one at the loop index has not been started.  At most one     *)
(* handler invocation is in flight, and it is the one for the event at the *)
(* loop index.                                                             *)
(***************************************************************************)
C19_OneAtATimeInQueueOrder ==
    /\ \A k, l \in DOMAIN events :
          (k < l /\ Started(events[l]))
              => /\ k < FirstUnprocessed
                 /\ Handled(events[k].iterator, events[k].n)
    /\ \A l \in DOMAIN events : l > FirstUnprocessed => ~Started(events[l])
    /\ Cardinality(InFlight) <= 1
    /\ InFlight # {}
          => /\ pc = "handler"
             /\ InFlight = {Len(calls)}
             /\ calls[Len(calls)] = events[i + 1]

C19_Witness ==
    /\ pc = "handler"
    /\ Len(events) = 3
    /\ i = 1
    /\ Handled(events[1].iterator, events[1].n)
    /\ InFlight = {Len(calls)}
    /\ ~Started(events[3])

(***************************************************************************)
(* C20  Under SpecAgain (the consumer may iterate over the engine again    *)
(* once the sequence has ended): the end is final.  No item that has been  *)
(* yielded is yielded again, and no pull failure that has been raised is   *)
(* raised again.                                                           *)
(***************************************************************************)
C20_TerminalIsAbsorbing ==
    /\ \A k, l \in DOMAIN out :
          k < l => <<out[k].iterator, out[k].n>> # <<out[l].iterator, out[l].n>>
    /\ \A k, l \in DOMAIN raised :
          (k < l /\ raised[k].source = "belt") => raised[k] # raised[l]

(***************************************************************************)
(* C21  No lost wakeup.  Every step in which a pull settles (with a value, *)
(* done or a failure) leaves the signal resolved.  While the loop waits    *)
(* for the signal and the counter is not 0, the signal is resolved, or the *)
(* queue and the accumulator are empty and every live belt has its pull    *)
(* outstanding.  The step that replaces a resolved signal leaves no error  *)
(* in the accumulator and no queued event the loop is not through with.    *)
(***************************************************************************)
C21_NoLostWakeup ==
    /\ [][(\E p \in Iterators : belts'[p].pulls < belts[p].pulls) => signal']_vars
    /\ []((pc = "signal" /\ iteratorCount # 0)
            => \/ signal
               \/ /\ events = <<>>
                  /\ throws = <<>>
                  /\ \A p \in Live : belts[p].pulls = 1)
    /\ [][(signal /\ ~signal')
            => /\ throws' = <<>>
               /\ events' = <<>>
               /\ i' = Len(events)
               /\ \A p \in Live' : belts'[p].pulls = 1]_vars

C21_Witness ==
    /\ pc = "signal"
    /\ ~signal
    /\ iteratorCount = 2
    /\ Len(out) >= 2
    /\ \E p \in Retired : belts[p].pulled >= 1

\* Every event of queue q has been processed by the loop.
AllProcessed(q) ==
    \A k \in DOMAIN q : Handled(q[k].iterator, q[k].n)

(***************************************************************************)
(* C22  No event is discarded unprocessed.  When the draining of a round   *)
(* ends, a belt that was registered during the round has no queued event   *)
(* the loop is not through with: an event of it was appended while the     *)
(* round was drained and has been processed in that round.  And the step   *)
(* that empties the queue finds every event of it processed.               *)
(***************************************************************************)
C22_NoEventDiscarded ==
    /\ [][(Draining /\ ~Draining')
            => \A p \in Iterators :
                  (belts[p].added = "round" /\ Pending(p) # {}) => Pending(p)' = {}]_vars
    /\ [][(events # <<>> /\ events' = <<>>)
            => /\ i' = Len(events)
               /\ \E q \in {events} : AllProcessed(q)']_vars

====
